---- MODULE Spec2Model ----
(***************************************************************************)
(* Model of the multipart-upload helper (libs/io/s3api/s3_multipart_ops.py)*)
(* and of the background run manager (libs/di/di_run_man.py).              *)
(*                                                                         *)
(* Spec    : one upload id driven by a single caller through               *)
(*           S3MultiParts, against the storage service.                    *)
(* SpecRun : one ASyncIO instance, its worker threads and its caller.      *)
(***************************************************************************)
EXTENDS Integers, Sequences, FiniteSets, TLC

\* ---------------------------------------------------------------- bounds
\* Largest local file, in bytes.
MaxFileSize == 5
\* Largest total_parts a caller passes.
MaxParts == 4
\* Caller-level operations on the upload id in one behaviour.
MaxCalls == 4
\* Worker threads one ASyncIO instance starts in one behaviour.
MaxThreads == 2
\* stop_io_async calls in one behaviour.
MaxStops == 2

\* ------------------------------------------------------------- constants
\* The factor the progress total is multiplied by (lines 195-196).
MiB == 1048576

ETags == {"e1", "e2"}
\* Exceptions of the storage client: a transport failure, and the service's
\* rejection of a request.
ConnectionError == "ConnectionError"
ClientError == "ClientError"
\* The exception of line 177.
IOError == "IOError"
OK == "ok"

VARIABLES
    \* --- the local file (multipart_obj_path)
    fileExists,         \* os.path.exists(multipart_obj_path)
    fileSize,           \* os.stat(multipart_obj_path).st_size
    \* --- the storage service, for the one upload id
    session,            \* "NONE" | "CREATED" | "COMPLETED" | "ABORTED"
    serverParts,        \* part number -> [ETag, data] the service holds
    objectData,         \* content of the object once the upload is completed
    \* --- one upload_parts invocation (its locals)
    pc,                 \* "idle" | "loop" | "returned" | "raised"
    total_parts,
    multipart_obj_size,
    single_part_size,
    filePos,            \* offset of file_pointer
    fileOpen,           \* file_pointer is open
    i,
    parts,
    uploaded_bytes,
    progress,           \* the last progress observation [uploaded, total]
    err,                \* the exception upload_parts raised
    sent,               \* the upload_part calls of this invocation, in order
    \* --- the caller
    lastCall,           \* the last request to the storage client and its outcome
    callerRes,          \* what the last caller-level operation gave its caller
    nCalls,             \* caller-level operations so far
    nUploads,           \* upload_parts invocations so far
    \* --- ASyncIO
    bg_thread,          \* 0 is None, else the thread's id
    threads,            \* thread id -> "running" | "finished" | "failed"
    stopPc,             \* "idle" | "joining" | "returned" | "raised"
    di_check,
    verified,           \* verify_data_integrity calls of the current stop
    verifyLive,         \* a verify call was made while the joined worker ran
    stopErr,
    nStops,
    \* --- RunDataCheckManager
    syncPc,             \* "none" | "constructed" | "raised": RunDataCheckManager(users)
    syncErr             \* the exception its construction raised

mpVars == <<fileExists, fileSize, session, serverParts, objectData, pc,
            total_parts, multipart_obj_size, single_part_size, filePos,
            fileOpen, i, parts, uploaded_bytes, progress, err, sent,
            lastCall, callerRes, nCalls, nUploads>>
runVars == <<bg_thread, threads, stopPc, di_check, verified, verifyLive,
             stopErr, nStops, syncPc, syncErr>>
vars == <<mpVars, runVars>>

\* ------------------------------------------------------------ the file
\* The bytes of the local file. The helper never inspects a byte, so the byte
\* at offset k-1 is written k: every byte is told apart from every other.
fileData == [k \in 1..fileSize |-> k]

Min(a, b) == IF a <= b THEN a ELSE b

\* Mutant: a size of 0 reads to the end of the file, as read() with no size.
read_all_on_zero(pos, size) ==
    SubSeq(fileData, pos + 1, IF size = 0 THEN fileSize ELSE Min(pos + size, fileSize))
\* file_pointer.read(size) at offset pos: at most size bytes, b"" for size 0
\* and at end of file.
read(pos, size) == SubSeq(fileData, pos + 1, Min(pos + size, fileSize))

\* Mutant: a read leaves the offset of the file where it was.
Advance_stuck(pos, data) == pos
\* A read moves the offset of file_pointer past the bytes it returned.
Advance(pos, data) == pos + Len(data)

RECURSIVE Concat(_)
Concat(ss) == IF ss = <<>> THEN <<>> ELSE Head(ss) \o Concat(Tail(ss))

RECURSIVE SumLen(_)
SumLen(ss) == IF ss = <<>> THEN 0 ELSE Len(Head(ss)) + SumLen(Tail(ss))

Reverse(s) == [k \in 1..Len(s) |-> s[Len(s) + 1 - k]]

\* ------------------------------------------------- the storage service
NoParts == [k \in {} |-> 0]

Response(status, etag) == [status |-> status, ETag |-> etag]

\* create_multipart_upload of the client: a new upload id.
ServiceCreate(fault) ==
    IF fault THEN Response(ConnectionError, "") ELSE Response(OK, "")

\* upload_part of the client: the service rejects an unknown or closed
\* upload id, else stores the part and assigns its ETag.
ServiceUploadPart(sess, fault, etag) ==
    IF fault THEN Response(ConnectionError, "")
    ELSE IF sess # "CREATED" THEN Response(ClientError, "")
    ELSE Response(OK, etag)

\* The part list is the exact set the service accepted, ascending, without
\* gaps, every ETag the one the service assigned.
ServiceAcceptsParts(list, held) ==
    /\ DOMAIN held = 1..Len(list)
    /\ \A k \in 1..Len(list) :
          /\ list[k].PartNumber = k
          /\ held[k].ETag = list[k].ETag

\* complete_multipart_upload of the client.
ServiceComplete(sess, fault, list, held) ==
    IF fault THEN Response(ConnectionError, "")
    ELSE IF sess # "CREATED" THEN Response(ClientError, "")
    ELSE IF ~ServiceAcceptsParts(list, held) THEN Response(ClientError, "")
    ELSE Response(OK, "")

\* The object the service assembles: the parts' data in part order.
ServiceAssemble(held) ==
    Concat([k \in 1..Cardinality(DOMAIN held) |-> held[k].data])

\* abort_multipart_upload of the client.
ServiceAbort(sess, fault) ==
    IF fault THEN Response(ConnectionError, "")
    ELSE IF sess # "CREATED" THEN Response(ClientError, "")
    ELSE Response(OK, "")

\* ------------------------------------------------------- S3MultiParts
\* What each wrapper hands its caller: the client's response, or the
\* client's exception, which no wrapper catches.
create_multipart_upload_result(response) == response
upload_part_result(response) == response
complete_multipart_upload_result(response) == response
\* Mutant: the wrapper catches the client's exception and returns normally.
abort_multipart_upload_result_swallow(response) == Response(OK, "")
abort_multipart_upload_result(response) == response

\* MultipartUpload={"Parts": parts}
complete_multipart_upload_parts(list) == list

\* single_part_size = multipart_obj_size // int(total_parts)
SinglePartSize(size, n) == size \div n

\* Mutant: the existence check is left out.
PathMissing_never(exists) == FALSE
\* if not os.path.exists(multipart_obj_path): raise IOError(...)
PathMissing(exists) == ~exists

\* Mutant: the part is recorded under a zero-based number.
PartRecord_zero_based(n, part) == [PartNumber |-> n - 1, ETag |-> part.ETag]
\* {"PartNumber": i, "ETag": part["ETag"]}
PartRecord(n, part) == [PartNumber |-> n, ETag |-> part.ETag]

\* Mutant: the part number advances by two.
NextPartNumber_skip(n) == n + 2
\* i += 1
NextPartNumber(n) == n + 1

\* uploaded_bytes += len(data)
AddUploaded(bytes, data) == bytes + Len(data)

\* The total of the progress observation: multipart_obj_size * 1048576.
ProgressTotal(size) == size * MiB

\* The exception of a division by zero.
ZeroDivisionError == "ZeroDivisionError"

\* cal_percent(num1, num2): num1 of num2 in percent, rounded down here; it
\* divides by num2, so -1 stands for the ZeroDivisionError of num2 = 0.
cal_percent(num1, num2) == IF num2 = 0 THEN -1 ELSE (num1 * 100) \div num2

\* Mutant: the file is closed by a close() after the loop, which an exception
\* skips.
WithExitCloses_on_return(exit) == exit = "returned"
\* with open(...) as file_pointer: the block closes the file however it is
\* left.
WithExitCloses(exit) == TRUE

\* Mutant: an exception of upload_part is caught and the loop goes on.
AfterUploadPart_continue(response) == "loop"
\* An exception of upload_part leaves the loop and the with block, and
\* upload_parts raises it; a response lets the loop go on.
AfterUploadPart(response) == IF response.status = OK THEN "loop" ELSE "raised"

Call(op, response, fault, arg) ==
    [op |-> op, status |-> response.status, fault |-> fault, arg |-> arg,
     tick |-> 1 - lastCall.tick]

NoCall == [op |-> "none", status |-> OK, fault |-> FALSE, arg |-> <<>>, tick |-> 0]

CallerFree == pc # "loop" /\ nCalls < MaxCalls

uploadLocals == <<total_parts, multipart_obj_size, single_part_size, filePos,
                  fileOpen, i, parts, uploaded_bytes, progress, err, sent>>
fileVars == <<fileExists, fileSize>>
serviceVars == <<session, serverParts, objectData>>

InitMp ==
    /\ fileExists \in BOOLEAN
    /\ fileSize \in 0..MaxFileSize
    /\ (~fileExists => fileSize = 0)
    /\ session = "NONE"
    /\ serverParts = NoParts
    /\ objectData = <<>>
    /\ pc = "idle"
    /\ total_parts = 1
    /\ multipart_obj_size = 0
    /\ single_part_size = 0
    /\ filePos = 0
    /\ fileOpen = FALSE
    /\ i = 1
    /\ parts = <<>>
    /\ uploaded_bytes = 0
    /\ progress = [uploaded |-> 0, total |-> 0]
    /\ err = OK
    /\ sent = <<>>
    /\ lastCall = NoCall
    /\ callerRes = OK
    /\ nCalls = 0
    /\ nUploads = 0

\* S3MultiParts.create_multipart_upload
create_multipart_upload ==
    /\ CallerFree
    /\ session = "NONE"
    /\ \E fault \in BOOLEAN :
         LET response == ServiceCreate(fault) IN
         /\ session' = IF response.status = OK THEN "CREATED" ELSE session
         /\ lastCall' = Call("create", response, fault, <<>>)
         /\ callerRes' = create_multipart_upload_result(response).status
    /\ nCalls' = nCalls + 1
    /\ UNCHANGED <<fileVars, serverParts, objectData, pc, uploadLocals, nUploads>>

\* S3MultiParts.upload_parts, lines 174-181: up to the first read.
upload_parts_call ==
    /\ CallerFree
    /\ \E n \in 1..MaxParts :
         /\ total_parts' = n
         /\ parts' = <<>>
         /\ uploaded_bytes' = 0
         /\ sent' = <<>>
         /\ IF PathMissing(fileExists)
            THEN /\ pc' = "raised"
                 /\ err' = IOError
                 /\ UNCHANGED <<multipart_obj_size, single_part_size, filePos,
                                fileOpen, i>>
            ELSE IF ~fileExists
            THEN \* os.stat of a missing path
                 /\ pc' = "raised"
                 /\ err' = "FileNotFoundError"
                 /\ UNCHANGED <<multipart_obj_size, single_part_size, filePos,
                                fileOpen, i>>
            ELSE /\ pc' = "loop"
                 /\ err' = OK
                 /\ multipart_obj_size' = fileSize
                 /\ single_part_size' = SinglePartSize(fileSize, n)
                 /\ filePos' = 0
                 /\ fileOpen' = TRUE
                 /\ i' = 1
    /\ nCalls' = nCalls + 1
    /\ nUploads' = nUploads + 1
    /\ UNCHANGED <<fileVars, serviceVars, progress, lastCall, callerRes>>

\* One pass of the loop that reads a non-empty chunk, lines 183-201.
upload_parts_part ==
    /\ pc = "loop"
    /\ LET data == read(filePos, single_part_size) IN
       /\ data # <<>>
       /\ \E fault \in BOOLEAN, etag \in ETags :
            LET response == ServiceUploadPart(session, fault, etag)
                part == upload_part_result(response)
            IN
            /\ lastCall' = Call("upload_part", response, fault, <<>>)
            /\ sent' = Append(sent, [PartNumber |-> i, Body |-> data,
                                     status |-> response.status,
                                     ETag |-> response.ETag])
            /\ serverParts' =
                 IF response.status = OK
                 THEN (i :> [ETag |-> response.ETag, data |-> data]) @@ serverParts
                 ELSE serverParts
            /\ filePos' = Advance(filePos, data)
            /\ IF part.status # OK
               THEN \* upload_part raised
                    /\ pc' = AfterUploadPart(part)
                    /\ err' = part.status
                    /\ UNCHANGED <<parts, uploaded_bytes, progress, i>>
               ELSE LET bytes == AddUploaded(uploaded_bytes, data)
                        total == ProgressTotal(multipart_obj_size)
                    IN
                    /\ parts' = Append(parts, PartRecord(i, part))
                    /\ uploaded_bytes' = bytes
                    /\ IF cal_percent(bytes, total) < 0
                       THEN /\ pc' = "raised"
                            /\ err' = ZeroDivisionError
                            /\ UNCHANGED <<progress, i>>
                       ELSE /\ pc' = AfterUploadPart(part)
                            /\ err' = err
                            /\ progress' = [uploaded |-> bytes, total |-> total]
                            /\ i' = NextPartNumber(i)
            /\ fileOpen' = IF pc' = "loop" THEN TRUE ELSE ~WithExitCloses(pc')
    /\ UNCHANGED <<fileVars, session, objectData, total_parts,
                   multipart_obj_size, single_part_size, callerRes, nCalls,
                   nUploads>>

\* The pass that reads b"": break, leave the with block, return parts.
upload_parts_return ==
    /\ pc = "loop"
    /\ read(filePos, single_part_size) = <<>>
    /\ pc' = "returned"
    /\ fileOpen' = ~WithExitCloses("returned")
    /\ UNCHANGED <<fileVars, serviceVars, total_parts, multipart_obj_size,
                   single_part_size, filePos, i, parts, uploaded_bytes,
                   progress, err, sent, lastCall, callerRes, nCalls, nUploads>>

\* The list the caller holds: what the last upload_parts returned.
Returned == IF pc = "returned" THEN parts ELSE <<>>

PartLists == {Returned, Reverse(Returned),
              IF Returned = <<>> THEN <<>> ELSE Tail(Returned)}

\* S3MultiParts.complete_multipart_upload
complete_multipart_upload ==
    /\ CallerFree
    /\ \E fault \in BOOLEAN, list \in PartLists :
         LET response == ServiceComplete(session, fault,
                             complete_multipart_upload_parts(list), serverParts)
         IN
         /\ lastCall' = Call("complete", response, fault, list)
         /\ callerRes' = complete_multipart_upload_result(response).status
         /\ IF response.status = OK
            THEN /\ session' = "COMPLETED"
                 /\ objectData' = ServiceAssemble(serverParts)
                 /\ serverParts' = NoParts
            ELSE UNCHANGED serviceVars
    /\ nCalls' = nCalls + 1
    /\ UNCHANGED <<fileVars, pc, uploadLocals, nUploads>>

\* S3MultiParts.abort_multipart_upload
abort_multipart_upload ==
    /\ CallerFree
    /\ \E fault \in BOOLEAN :
         LET response == ServiceAbort(session, fault) IN
         /\ lastCall' = Call("abort", response, fault, <<>>)
         /\ callerRes' = abort_multipart_upload_result(response).status
         /\ IF response.status = OK
            THEN /\ session' = "ABORTED"
                 /\ serverParts' = NoParts
                 /\ objectData' = objectData
            ELSE UNCHANGED serviceVars
    /\ nCalls' = nCalls + 1
    /\ UNCHANGED <<fileVars, pc, uploadLocals, nUploads>>

\* ------------------------------------------------------------- ASyncIO
\* The exception of None.join().
AttributeError == "AttributeError"
\* The exception of the integrity verifier.
IntegrityVerificationError == "IntegrityVerificationError"

\* ASyncIO.__init__: self.bg_thread = None
RunIdle ==
    /\ bg_thread = 0
    /\ threads = <<>>
    /\ stopPc = "idle"
    /\ di_check = TRUE
    /\ verified = 0
    /\ verifyLive = FALSE
    /\ stopErr = OK
    /\ nStops = 0
    /\ syncPc = "none"
    /\ syncErr = OK

\* Mutant: stop_io_async does not wait for the thread.
JoinReturns_always(state) == TRUE
\* Thread.join() returns once the thread has terminated, whether its target
\* returned or raised.
JoinReturns(state) == state # "running"

\* Mutant: the verification runs whatever di_check is.
ShouldVerify_always(check) == TRUE
\* if di_check:
ShouldVerify(check) == check

\* What join and the return of stop_io_async make of the worker's outcome:
\* an exception of the target ends the thread and reaches no one.
JoinOutcome(state) == OK

\* Mutant: the target is run to its end on the caller's thread (run() for
\* start()).
SpawnedState_inline == "finished"
\* self.bg_thread.start(): the target runs on the new thread, and start()
\* returns without waiting for it.
SpawnedState == "running"

\* Mutant: a missing thread is skipped instead of joined.
JoinRaises_guarded(thread) == FALSE
\* self.bg_thread.join() with self.bg_thread still None.
JoinRaises(thread) == thread = 0

CallerNotBlocked == stopPc # "joining"

syncVars == <<syncPc, syncErr>>
asyncVars == <<bg_thread, threads, stopPc, di_check, verified, verifyLive,
               stopErr, nStops>>

\* ASyncIO.start_io_async: a new thread runs self.uploader.start, and
\* self.bg_thread refers to it.
start_io_async ==
    /\ CallerNotBlocked
    /\ Len(threads) < MaxThreads
    /\ threads' = Append(threads, SpawnedState)
    /\ bg_thread' = Len(threads) + 1
    /\ stopPc' = "idle"
    /\ UNCHANGED <<di_check, verified, verifyLive, stopErr, nStops, syncVars>>

\* The target of a worker thread returns.
worker_finish ==
    \E t \in DOMAIN threads :
        /\ threads[t] = "running"
        /\ threads' = [threads EXCEPT ![t] = "finished"]
        /\ UNCHANGED <<bg_thread, stopPc, di_check, verified, verifyLive,
                       stopErr, nStops, syncVars>>

\* The target of a worker thread raises.
worker_fail ==
    \E t \in DOMAIN threads :
        /\ threads[t] = "running"
        /\ threads' = [threads EXCEPT ![t] = "failed"]
        /\ UNCHANGED <<bg_thread, stopPc, di_check, verified, verifyLive,
                       stopErr, nStops, syncVars>>

\* ASyncIO.stop_io_async up to self.bg_thread.join(): None has no join.
stop_io_async_call ==
    /\ CallerNotBlocked
    /\ nStops < MaxStops
    /\ nStops' = nStops + 1
    /\ \E check \in BOOLEAN : di_check' = check
    /\ verified' = 0
    /\ verifyLive' = FALSE
    /\ IF JoinRaises(bg_thread)
       THEN stopPc' = "raised" /\ stopErr' = AttributeError
       ELSE stopPc' = "joining" /\ stopErr' = OK
    /\ UNCHANGED <<bg_thread, threads, syncVars>>

\* ASyncIO.stop_io_async from the return of join to its own return.
stop_io_async_joined ==
    /\ stopPc = "joining"
    /\ bg_thread # 0
    /\ JoinReturns(threads[bg_thread])
    /\ IF JoinOutcome(threads[bg_thread]) # OK
       THEN /\ stopPc' = "raised"
            /\ stopErr' = JoinOutcome(threads[bg_thread])
            /\ UNCHANGED <<verified, verifyLive>>
       ELSE IF ShouldVerify(di_check)
       THEN /\ verified' = verified + 1
            /\ verifyLive' = (threads[bg_thread] = "running")
            /\ \E outcome \in {OK, IntegrityVerificationError} :
                 /\ stopErr' = outcome
                 /\ stopPc' = IF outcome = OK THEN "returned" ELSE "raised"
       ELSE /\ stopPc' = "returned"
            /\ UNCHANGED <<verified, verifyLive, stopErr>>
    /\ UNCHANGED <<bg_thread, threads, di_check, nStops, syncVars>>

\* ------------------------------------------------- RunDataCheckManager
\* The exception of a call that leaves a required parameter unbound.
TypeError == "TypeError"

\* def __init__(self, upload_cls, users): the parameters a call must bind.
ASyncIO_init_params == {"upload_cls", "users"}

\* super(RunDataCheckManager, self).__init__(users=users): what it binds.
RunDataCheckManager_super_args == {"users"}

\* Python binds a call only if every parameter without a default is given.
Binds(params, given) == params \subseteq given

\* RunDataCheckManager.__init__: an exception of the super call leaves the
\* caller without an instance, so with no start_io or stop_io to call.
RunDataCheckManager_init ==
    /\ CallerNotBlocked
    /\ IF Binds(ASyncIO_init_params, RunDataCheckManager_super_args)
       THEN syncPc' = "constructed" /\ syncErr' = OK
       ELSE syncPc' = "raised" /\ syncErr' = TypeError
    /\ UNCHANGED asyncVars

\* ------------------------------------------------------ specifications
Init == InitMp /\ RunIdle

Next ==
    \/ create_multipart_upload /\ UNCHANGED runVars
    \/ upload_parts_call /\ UNCHANGED runVars
    \/ upload_parts_part /\ UNCHANGED runVars
    \/ upload_parts_return /\ UNCHANGED runVars
    \/ complete_multipart_upload /\ UNCHANGED runVars
    \/ abort_multipart_upload /\ UNCHANGED runVars

Spec == Init /\ [][Next]_vars

\* upload_parts runs on its caller's thread, whose blocking calls (read,
\* upload_part) each come back: a pass of the loop that can be made is made.
upload_parts_pass == (upload_parts_part \/ upload_parts_return) /\ UNCHANGED runVars

SpecLive == Init /\ [][Next]_vars /\ WF_vars(upload_parts_pass)

InitRun == InitMp /\ ~fileExists /\ RunIdle

NextRun ==
    \/ start_io_async /\ UNCHANGED mpVars
    \/ worker_finish /\ UNCHANGED mpVars
    \/ worker_fail /\ UNCHANGED mpVars
    \/ stop_io_async_call /\ UNCHANGED mpVars
    \/ stop_io_async_joined /\ UNCHANGED mpVars
    \/ RunDataCheckManager_init /\ UNCHANGED mpVars

SpecRun == InitRun /\ [][NextRun]_vars

\* ------------------------------------------------------------- claims
Bodies == [k \in 1..Len(sent) |-> sent[k].Body]

\* C1 (as stated): when upload_parts returns, every part but the last has
\* S // N bytes and the last has S - (N-1)*(S // N) bytes.
C1_PartSizes ==
    pc = "returned" =>
        \A k \in 1..Len(sent) :
            Len(sent[k].Body) =
                IF k < Len(sent)
                THEN multipart_obj_size \div total_parts
                ELSE multipart_obj_size
                     - (total_parts - 1) * (multipart_obj_size \div total_parts)

\* C2 (as stated): when upload_parts returns normally, the byte lengths of
\* the parts passed to upload_part sum to the file's size.
C2_BytesSum ==
    pc = "returned" => SumLen(Bodies) = multipart_obj_size

\* C3: the k-th upload_part call of an invocation carries part number k, and
\* the list holds PartNumber 1, 2, ..., n, each with the ETag its call
\* returned.
C3_PartOrder ==
    /\ \A k \in 1..Len(sent) : sent[k].PartNumber = k
    /\ \A k \in 1..Len(parts) :
          /\ k <= Len(sent)
          /\ sent[k].status = OK
          /\ parts[k] = [PartNumber |-> k, ETag |-> sent[k].ETag]
    /\ pc = "returned" => Len(parts) = Len(sent)

C3_Witness ==
    /\ pc = "returned"
    /\ Len(parts) >= 3
    /\ parts[1].ETag # parts[2].ETag

\* C4: on a created upload id whose parts all come from one upload_parts
\* invocation that returned, complete_multipart_upload with the returned list
\* and no transport failure succeeds, and the object is the concatenation of
\* the uploaded parts.
C4_CompleteAfterUploadParts ==
    [][ ( /\ lastCall'.tick # lastCall.tick
          /\ lastCall'.op = "complete"
          /\ ~lastCall'.fault
          /\ session = "CREATED"
          /\ pc = "returned"
          /\ nUploads = 1
          /\ lastCall'.arg = parts )
        => ( /\ callerRes' = OK
             /\ session' = "COMPLETED"
             /\ objectData' = Concat(Bodies) ) ]_vars

C4_Witness ==
    /\ lastCall.op = "complete"
    /\ lastCall.arg = parts
    /\ pc = "returned"
    /\ nUploads = 1
    /\ Len(parts) >= 2
    /\ parts[1].ETag # parts[2].ETag
    /\ session = "COMPLETED"
    /\ objectData = fileData

\* C8: with the local file missing, upload_parts raises the IOError of its
\* existence check, makes no upload_part call and records no part.
C8_MissingFile ==
    ~fileExists =>
        /\ pc \in {"idle", "raised"}
        /\ pc = "raised" => err = IOError
        /\ sent = <<>>
        /\ parts = <<>>
        /\ ~fileOpen
        /\ lastCall.op # "upload_part"

C8_Witness ==
    /\ ~fileExists
    /\ pc = "raised"
    /\ session = "CREATED"

\* C9: a failing upload_part call is the last call of its invocation, its
\* exception is the one upload_parts raises, and no part number is sent twice.
C9_NoRetry ==
    /\ \A j, k \in 1..Len(sent) :
          j < k => sent[j].PartNumber # sent[k].PartNumber
    /\ \A k \in 1..Len(sent) : k < Len(sent) => sent[k].status = OK
    /\ (sent # <<>> /\ sent[Len(sent)].status # OK) =>
          (pc = "raised" /\ err = sent[Len(sent)].status)
    /\ (pc = "raised" /\ err \in {ConnectionError, ClientError}) =>
          (sent # <<>> /\ sent[Len(sent)].status = err)

C9_Witness ==
    /\ pc = "raised"
    /\ Len(sent) >= 3
    /\ err = ConnectionError
    /\ Len(parts) = Len(sent) - 1

Terminal == {"COMPLETED", "ABORTED"}

\* C10: the session only moves NONE -> CREATED -> COMPLETED or ABORTED, and
\* once it is COMPLETED or ABORTED every request on the upload id fails, the
\* caller gets that failure, and the service's state stays as it is.
C10_TerminalAbsorbing ==
    [][ /\ session' # session =>
              <<session, session'>> \in {<<"NONE", "CREATED">>,
                                         <<"CREATED", "COMPLETED">>,
                                         <<"CREATED", "ABORTED">>}
        /\ session \in Terminal =>
              /\ serviceVars' = serviceVars
              /\ lastCall'.tick # lastCall.tick =>
                    /\ lastCall'.status # OK
                    /\ lastCall'.op \in {"complete", "abort"} =>
                          callerRes' = lastCall'.status
                    /\ lastCall'.op = "upload_part" =>
                          (pc' = "raised" /\ err' = lastCall'.status) ]_vars

C10_Witness ==
    /\ session = "COMPLETED"
    /\ objectData # <<>>
    /\ lastCall.op = "abort"
    /\ ~lastCall.fault
    /\ callerRes = ClientError

Joined == bg_thread # 0 /\ threads[bg_thread] # "running"

StopEnded == stopPc \in {"returned", "raised"}

\* C5: stop_io_async comes back from its join, to return or to raise the
\* verifier's exception, only with the worker thread terminated.
C5_StopAfterJoin ==
    (stopPc = "returned" \/ (stopPc = "raised" /\ stopErr # AttributeError))
        => Joined

C5_Witness ==
    /\ stopPc = "returned"
    /\ bg_thread # 0
    /\ threads[bg_thread] = "failed"

\* C6 (as stated): in every execution of stop_io_async the verification is
\* invoked iff di_check is true, and never before the worker has terminated.
C6_VerifyIffCheck ==
    /\ StopEnded => (verified = 1 <=> di_check)
    /\ stopPc = "joining" => verified = 0
    /\ ~verifyLive

\* C6 (amended): in every execution of stop_io_async whose join returns, the
\* verification is invoked iff di_check is true, and never before the worker
\* has terminated.
C6_VerifyIffCheckAfterJoin ==
    /\ (StopEnded /\ stopErr # AttributeError) =>
          (Joined /\ (verified = 1 <=> di_check))
    /\ stopPc = "joining" => verified = 0
    /\ ~verifyLive

C6_Witness ==
    /\ stopPc = "returned"
    /\ ~di_check
    /\ verified = 0
    /\ Joined

\* C7 (as stated): stop_io_async does not return normally when the workload
\* it joined has failed.
C7_FailureSurfaced ==
    (stopPc = "returned" /\ bg_thread # 0) => threads[bg_thread] # "failed"

\* C11: start_io_async returns with its worker still running and its caller
\* free to go on: it waits for no thread, and touches no other thread.
C11_StartNonBlocking ==
    [][ bg_thread' # bg_thread =>
            /\ bg_thread' = Len(threads) + 1
            /\ threads' = Append(threads, "running")
            /\ stopPc' # "joining" ]_vars

C11_Witness ==
    /\ bg_thread = 2
    /\ threads[1] = "running"
    /\ threads[2] = "running"
    /\ stopPc = "idle"

\* C16 (as stated): when a stop_io_async call returns, no worker thread the
\* manager started is still running.
C16_AllWorkersJoined ==
    stopPc = "returned" => \A t \in DOMAIN threads : threads[t] # "running"

\* C19: stop_io_async on a manager never started raises the AttributeError of
\* the join on None and makes no verification call, whatever di_check is.
C19_StopWithoutStart ==
    threads = <<>> =>
        /\ bg_thread = 0
        /\ stopPc \in {"idle", "raised"}
        /\ stopPc = "raised" => stopErr = AttributeError
        /\ verified = 0

C19_Witness ==
    /\ threads = <<>>
    /\ stopPc = "raised"
    /\ di_check
    /\ nStops = 2

\* C12 (as stated): a RunDataCheckManager can be constructed from a user
\* set; start_io and stop_io are then those of the instance constructed.
C12_SyncManagerConstructed ==
    syncPc \in {"none", "constructed"}

\* C13: the file is open exactly while upload_parts is in its loop: after a
\* return and after an exception of upload_part alike it is closed.
C13_FileReleased ==
    fileOpen <=> pc = "loop"

C13_Witness ==
    /\ pc = "raised"
    /\ err = ConnectionError
    /\ Len(sent) >= 2
    /\ ~fileOpen

Successful == {k \in 1..Len(sent) : sent[k].status = OK}

\* C14: with fileSize // total_parts = 0 upload_parts reads nothing, calls
\* upload_part not once, raises nothing and returns the empty list; and in
\* every case no ZeroDivisionError is raised and the list holds one entry
\* per successful upload_part call.
C14_DegeneratePartSize ==
    /\ (fileExists /\ nUploads > 0 /\ fileSize \div total_parts = 0) =>
          /\ pc \in {"loop", "returned"}
          /\ sent = <<>>
          /\ parts = <<>>
          /\ uploaded_bytes = 0
          /\ err = OK
    /\ err # ZeroDivisionError
    /\ Len(parts) = Cardinality(Successful)

C14_Witness ==
    /\ fileSize = 2
    /\ total_parts = 3
    /\ session = "CREATED"
    /\ pc = "returned"
    /\ parts = <<>>

\* C15 (as stated): upload_parts sends no more than total_parts parts, and
\* no part number above total_parts.
C15_AtMostTotalParts ==
    /\ Len(sent) <= total_parts
    /\ Len(parts) <= total_parts
    /\ \A k \in 1..Len(sent) : sent[k].PartNumber <= total_parts

\* C17 (as stated): the total of a progress observation is the file's size
\* in bytes, the uploaded count never exceeds it, and after the last part
\* the two are equal.
C17_ProgressTotal ==
    /\ (pc \in {"loop", "returned"} /\ parts # <<>>) =>
          /\ progress.total = multipart_obj_size
          /\ progress.uploaded <= progress.total
    /\ (pc = "returned" /\ parts # <<>>) => progress.uploaded = progress.total

\* C18: the loop of upload_parts ends. Every pass that stays in the loop
\* moves the offset of the file forward, never past its end; the loop is left
\* by an exception only if an upload_part call raised; and, its passes being
\* made, upload_parts returns or raises.
C18_LoopTerminates ==
    /\ [][ (pc = "loop" /\ pc' = "loop") =>
              (filePos < filePos' /\ filePos' <= fileSize) ]_vars
    /\ [](pc = "raised" /\ fileExists =>
              (sent # <<>> /\ sent[Len(sent)].status # OK))
    /\ (pc = "loop") ~> (pc \in {"returned", "raised"})

C18_Witness ==
    /\ pc = "returned"
    /\ Len(sent) >= 4
    /\ Len(parts) = Len(sent)

====
